---- MODULE Spec2Model ----
(***************************************************************************)
(* Model of the resume-to-portfolio server (src/index.js): the extraction  *)
(* endpoint POST /api/parse-resume and the share endpoints POST /api/share *)
(* and GET /api/share/:id over the Share collection.                       *)
(*                                                                         *)
(* JSON values are tagged records [t, s, kv]; a text handed to JSON.parse  *)
(* is a sequence of tokens [c, s].                                         *)
(***************************************************************************)
EXTENDS Integers, Sequences, FiniteSets, TLC

VARIABLES store, now, last, ext, alive

vars == <<store, now, last, ext, alive>>

(* ------------------------------ bounds --------------------------------- *)

\* How many times the clock is advanced.
MaxTicks == 3

\* How many extraction requests are in flight at once.
MaxRequests == 2

\* One clock step: 15 days, in seconds.
TickSeconds == 60 * 60 * 24 * 15

(* --------------------------- JSON values ------------------------------- *)

JStr(x) == [t |-> "str", s |-> x, kv |-> <<>>]
JNum(x) == [t |-> "num", s |-> x, kv |-> <<>>]
JNull == [t |-> "null", s |-> "", kv |-> <<>>]
\* JavaScript's undefined: what a missing property reads as. Not a JSON value.
JUndef == [t |-> "undefined", s |-> "", kv |-> <<>>]
Member(key, val) == [k |-> key, v |-> val]
JObj(members) == [t |-> "obj", s |-> "", kv |-> members]
JArr(elems) == [t |-> "arr", s |-> "", kv |-> [i \in 1..Len(elems) |-> Member("", elems[i])]]

HasKey(v, key) == v.t = "obj" /\ \E i \in 1..Len(v.kv) : v.kv[i].k = key

Get(v, key) ==
  IF HasKey(v, key)
  THEN v.kv[CHOOSE i \in 1..Len(v.kv) : v.kv[i].k = key].v
  ELSE JUndef

\* obj[key] = val: replaces the member in place when the key exists.
Put(members, key, val) ==
  IF \E i \in 1..Len(members) : members[i].k = key
  THEN [i \in 1..Len(members) |->
          IF members[i].k = key THEN Member(key, val) ELSE members[i]]
  ELSE Append(members, Member(key, val))

(* ------------------------- JSON text (tokens) -------------------------- *)

Tok(class, text) == [c |-> class, s |-> text]
LBrace == Tok("lbrace", "{")
RBrace == Tok("rbrace", "}")
LBrack == Tok("lbrack", "[")
RBrack == Tok("rbrack", "]")
Colon == Tok("colon", ":")
Comma == Tok("comma", ",")

RECURSIVE Stringify(_)
RECURSIVE StringifyFrom(_, _, _)

\* The members kv[i..] of an object (isObj) or array, comma separated.
StringifyFrom(kv, i, isObj) ==
  IF i > Len(kv) THEN <<>>
  ELSE (IF i > 1 THEN <<Comma>> ELSE <<>>)
       \o (IF isObj THEN <<Tok("string", kv[i].k), Colon>> ELSE <<>>)
       \o Stringify(kv[i].v)
       \o StringifyFrom(kv, i + 1, isObj)

\* The JSON text of a JSON value, as the provider would write it.
Stringify(v) ==
  CASE v.t = "obj" -> <<LBrace>> \o StringifyFrom(v.kv, 1, TRUE) \o <<RBrace>>
    [] v.t = "arr" -> <<LBrack>> \o StringifyFrom(v.kv, 1, FALSE) \o <<RBrack>>
    [] v.t = "str" -> <<Tok("string", v.s)>>
    [] v.t = "num" -> <<Tok("number", v.s)>>
    [] OTHER -> <<Tok("null", "null")>>

ParseFail == [ok |-> FALSE, v |-> JUndef, next |-> 0]
ParseOk(val, n) == [ok |-> TRUE, v |-> val, next |-> n]

RECURSIVE ParseValue(_, _)
RECURSIVE ParseMembers(_, _, _)
RECURSIVE ParseElements(_, _, _)

\* key : value { , key : value } "}"   starting at toks[i]
ParseMembers(toks, i, acc) ==
  IF i + 1 > Len(toks) \/ toks[i].c # "string" \/ toks[i + 1].c # "colon"
  THEN ParseFail
  ELSE LET r == ParseValue(toks, i + 2) IN
       IF ~r.ok \/ r.next > Len(toks) THEN ParseFail
       ELSE LET acc2 == Put(acc, toks[i].s, r.v) IN
            CASE toks[r.next].c = "comma" -> ParseMembers(toks, r.next + 1, acc2)
              [] toks[r.next].c = "rbrace" -> ParseOk(JObj(acc2), r.next + 1)
              [] OTHER -> ParseFail

\* value { , value } "]"   starting at toks[i]
ParseElements(toks, i, acc) ==
  LET r == ParseValue(toks, i) IN
  IF ~r.ok \/ r.next > Len(toks) THEN ParseFail
  ELSE LET acc2 == Append(acc, r.v) IN
       CASE toks[r.next].c = "comma" -> ParseElements(toks, r.next + 1, acc2)
         [] toks[r.next].c = "rbrack" -> ParseOk(JArr(acc2), r.next + 1)
         [] OTHER -> ParseFail

ParseValue(toks, i) ==
  IF i > Len(toks) THEN ParseFail
  ELSE CASE toks[i].c = "string" -> ParseOk(JStr(toks[i].s), i + 1)
         [] toks[i].c = "number" -> ParseOk(JNum(toks[i].s), i + 1)
         [] toks[i].c = "null" -> ParseOk(JNull, i + 1)
         [] toks[i].c = "lbrace" ->
              IF i + 1 <= Len(toks) /\ toks[i + 1].c = "rbrace"
              THEN ParseOk(JObj(<<>>), i + 2)
              ELSE ParseMembers(toks, i + 1, <<>>)
         [] toks[i].c = "lbrack" ->
              IF i + 1 <= Len(toks) /\ toks[i + 1].c = "rbrack"
              THEN ParseOk(JArr(<<>>), i + 2)
              ELSE ParseElements(toks, i + 1, <<>>)
         [] OTHER -> ParseFail

\* JSON.parse(text): the value, or a SyntaxError (ok = FALSE) when the text is
\* not exactly one JSON value.
JSONParse(toks) ==
  LET r == ParseValue(toks, 1) IN
  IF r.ok /\ r.next = Len(toks) + 1 THEN [ok |-> TRUE, v |-> r.v]
  ELSE [ok |-> FALSE, v |-> JUndef]

(* ------------------------------ schema --------------------------------- *)

SString == [t |-> "STRING", s |-> "", kv |-> <<>>]
SObject(props) == [t |-> "OBJECT", s |-> "", kv |-> props]
SArray(items) == [t |-> "ARRAY", s |-> "", kv |-> <<Member("items", items)>>]

schema ==
  SObject(<<
    Member("basics", SObject(<<
      Member("name", SString), Member("label", SString),
      Member("email", SString), Member("linkedin", SString),
      Member("github", SString), Member("summary", SString)>>)),
    Member("skills", SArray(SObject(<<Member("name", SString)>>))),
    Member("projects", SArray(SObject(<<
      Member("name", SString), Member("description", SString),
      Member("technologies", SArray(SString)), Member("url", SString)>>))),
    Member("experience", SArray(SObject(<<
      Member("role", SString), Member("company", SString),
      Member("date", SString), Member("description", SString)>>))),
    Member("education", SArray(SObject(<<
      Member("institution", SString), Member("degree", SString),
      Member("date", SString)>>))),
    Member("achievements", SArray(SObject(<<Member("description", SString)>>))),
    Member("otherSections", SArray(SObject(<<
      Member("title", SString), Member("content", SString)>>)))>>)

RECURSIVE Total(_, _)
\* v is total over the schema node sch: every declared property is present
\* with a value of the declared type, at every level.
Total(v, sch) ==
  CASE sch.t = "STRING" -> v.t = "str"
    [] sch.t = "ARRAY" ->
         /\ v.t = "arr"
         /\ \A i \in 1..Len(v.kv) : Total(v.kv[i].v, sch.kv[1].v)
    [] OTHER ->
         /\ v.t = "obj"
         /\ \A i \in 1..Len(sch.kv) :
              /\ HasKey(v, sch.kv[i].k)
              /\ Total(Get(v, sch.kv[i].k), sch.kv[i].v)

RECURSIVE DefaultOf(_)
\* The declared default of a schema node: "" for a string, [] for an array,
\* an object of defaults for an object.
DefaultOf(sch) ==
  CASE sch.t = "STRING" -> JStr("")
    [] sch.t = "ARRAY" -> JArr(<<>>)
    [] OTHER -> JObj([i \in 1..Len(sch.kv) |->
                       Member(sch.kv[i].k, DefaultOf(sch.kv[i].v))])

RECURSIVE Normalize(_, _)
\* v with every property the schema declares and v lacks filled with its
\* default.
Normalize(v, sch) ==
  CASE sch.t = "OBJECT" /\ v.t = "obj" ->
         JObj([i \in 1..Len(sch.kv) |->
                Member(sch.kv[i].k,
                       IF HasKey(v, sch.kv[i].k)
                       THEN Normalize(Get(v, sch.kv[i].k), sch.kv[i].v)
                       ELSE DefaultOf(sch.kv[i].v))])
    [] sch.t = "ARRAY" /\ v.t = "arr" ->
         [v EXCEPT !.kv =
           [i \in 1..Len(v.kv) |-> Member("", Normalize(v.kv[i].v, sch.kv[1].v))]]
    [] OTHER -> IF v.t = "undefined" THEN DefaultOf(sch) ELSE v

(* --------------------------- mongoose save ----------------------------- *)

RECURSIVE Clone(_, _)
RECURSIVE CloneMembers(_, _)

\* The members of a plain object that survive the clone: a member whose
\* clone is undefined is dropped.
CloneMembers(kv, i) ==
  IF i > Len(kv) THEN <<>>
  ELSE LET c == Clone(kv[i].v, FALSE) IN
       (IF c = JUndef THEN <<>> ELSE <<Member(kv[i].k, c)>>)
       \o CloneMembers(kv, i + 1)

\* What a document's value is saved as under the schema option minimize,
\* which shareSchema leaves at its default (true): an object left with no
\* members is removed (undefined), except as an array element.
Clone(v, isArrayChild) ==
  CASE v.t = "obj" ->
         LET kept == CloneMembers(v.kv, 1) IN
         IF kept = <<>> /\ ~isArrayChild THEN JUndef ELSE JObj(kept)
    [] v.t = "arr" ->
         [v EXCEPT !.kv = [i \in 1..Len(v.kv) |-> Member("", Clone(v.kv[i].v, TRUE))]]
    [] OTHER -> v

(* ------------------------------ inputs --------------------------------- *)

\* Identifiers nanoid(8) may return.
ShareIds == {"V1StGXR8", "a9Zk_3-Q"}

SampleBody == JObj(<<Member("foo", JNum("1"))>>)

\* Request bodies express.json() hands to the share handler.
Bodies ==
  { SampleBody,
    JObj(<<>>),
    JObj(<<Member("foo", JNum("1")), Member("bar", JObj(<<>>))>>),
    JArr(<<JObj(<<>>)>>) }

NoFile == "none"
Files == {"resume.pdf"}

\* Texts pdfParse may extract.
Texts == {"Skills: Go, Rust", ""}

EmptyRecord == DefaultOf(schema)

SkillsRecord ==
  JObj(Put(EmptyRecord.kv, "skills",
           JArr(<<JObj(<<Member("name", JStr("Go"))>>),
                  JObj(<<Member("name", JStr("Rust"))>>)>>)))

PartialRecord ==
  JObj(<<Member("basics", JObj(<<Member("name", JStr("Ada"))>>)),
         Member("skills", JArr(<<>>))>>)

\* Texts the provider may return in response.text.
RawOutputs ==
  { Stringify(EmptyRecord),
    Stringify(SkillsRecord),
    Stringify(PartialRecord),
    Stringify(JObj(<<>>)),
    Stringify(JNull),
    <<Tok("junk", "fence-json")>> \o Stringify(EmptyRecord) \o <<Tok("junk", "fence")>>,
    SubSeq(Stringify(SkillsRecord), 1, 9),
    <<Tok("junk", "Here"), Tok("junk", "you"), Tok("junk", "go")>> }

(* ------------------------------ responses ------------------------------ *)

ErrorBody(msg) == JObj(<<Member("error", JStr(msg))>>)
ErrorDetails(msg, details) ==
  JObj(<<Member("error", JStr(msg)), Member("details", JStr(details))>>)
IsErrorObject(b) == HasKey(b, "error")

NoResponse == [status |-> 0, body |-> JUndef]
Respond(code, b) == [status |-> code, body |-> b]

(* ---------------------------- share store ------------------------------ *)

ExpireAfterSeconds == 60 * 60 * 24 * 30

\* The document Share.create builds: createdAt defaults to Date.now; data is
\* saved as the clone of the request body. posted remembers the request body
\* itself (history only: no handler reads it).
NewShare(id, data, t) ==
  [shareId |-> id, data |-> Clone(data, FALSE), createdAt |-> t, posted |-> data]

\* Faulty variant of InsertOne: no unique index behind the write, the document of
\* the same shareId is replaced.
InsertOneUpsert(st, doc) ==
  [ok |-> TRUE, store |-> {r \in st : r.shareId # doc.shareId} \cup {doc}]

\* The insert under the unique index on shareId: a duplicate key error when a
\* document already carries the shareId, and then nothing is written.
InsertOne(st, doc) ==
  IF \E r \in st : r.shareId = doc.shareId
  THEN [ok |-> FALSE, store |-> st]
  ELSE [ok |-> TRUE, store |-> st \cup {doc}]

\* Share.findOne({ shareId: id }): no condition on createdAt.
FindOne(st, id) == {r \in st : r.shareId = id}

\* Faulty variant of Expired: expires one day after createdAt.
ExpiredAfterOneDay(r, t) == t - r.createdAt >= 60 * 60 * 24

\* The TTL index on createdAt: what a pass of the store's TTL task may delete.
Expired(r, t) == t - r.createdAt >= ExpireAfterSeconds

\* Faulty variant of CreateShareResponse: answers without regard to the write.
CreateShareResponseUnawaited(written, id) ==
  Respond(200, JObj(<<Member("shareId", JStr(id))>>))

\* POST /api/share after `await Share.create`: the shareId once the write has
\* resolved, the error object when it rejected.
CreateShareResponse(written, id) ==
  IF written
  THEN Respond(200, JObj(<<Member("shareId", JStr(id))>>))
  ELSE Respond(500, ErrorBody("Failed to create share link."))

\* Faulty variant of GetShareResponse: no `if (!record)` test, so reading record.data
\* of null throws into the catch.
GetShareResponseNoNullTest(rejected, found) ==
  IF rejected \/ found = {}
  THEN Respond(500, ErrorBody("Failed to fetch shared data."))
  ELSE Respond(200, (CHOOSE r \in found : TRUE).data)

\* Faulty variant of GetShareResponse: the lookup's result is answered as it
\* is, null for no record.
GetShareResponseNullBody(rejected, found) ==
  IF rejected THEN Respond(500, ErrorBody("Failed to fetch shared data."))
  ELSE IF found = {} THEN Respond(200, JNull)
  ELSE Respond(200, (CHOOSE r \in found : TRUE).data)

\* GET /api/share/:id after `await Share.findOne`.
GetShareResponse(rejected, found) ==
  IF rejected THEN Respond(500, ErrorBody("Failed to fetch shared data."))
  ELSE IF found = {} THEN Respond(404, ErrorBody("Share link not found"))
  ELSE Respond(200, (CHOOSE r \in found : TRUE).data)

\* History of a lookup (no handler reads it): the request body that the
\* document carrying the id was created from, and whether that document was
\* already past its expiry at time t.
Expected(found) == IF found = {} THEN JUndef ELSE (CHOOSE r \in found : TRUE).posted
Stale(found, t) == \E r \in found : Expired(r, t)

NoRequest ==
  [op |-> "none", id |-> "", posted |-> JUndef, cause |-> "",
   live |-> FALSE, expected |-> JUndef, stale |-> FALSE, resp |-> NoResponse]

\* POST /api/share with body data; nanoid returns id; storeDown: the store
\* rejects the write.
CreateShare(data, id, storeDown) ==
  LET ins == IF storeDown THEN [ok |-> FALSE, store |-> store]
             ELSE InsertOne(store, NewShare(id, data, now))
  IN /\ alive
     /\ store' = ins.store
     /\ last' = [op |-> "create", id |-> id, posted |-> data,
                 cause |-> IF ins.ok THEN ""
                           ELSE IF storeDown THEN "storeDown" ELSE "collision",
                 live |-> FindOne(store, id) # {},
                 expected |-> Expected(FindOne(store, id)),
                 stale |-> Stale(FindOne(store, id), now),
                 resp |-> CreateShareResponse(ins.ok, id)]
     /\ UNCHANGED <<now, ext, alive>>

\* GET /api/share/:id; storeDown: the store rejects the lookup.
GetShare(id, storeDown) ==
  LET found == IF storeDown THEN {} ELSE FindOne(store, id)
  IN /\ alive
     /\ last' = [op |-> "get", id |-> id, posted |-> JUndef,
                 cause |-> IF storeDown THEN "storeDown"
                           ELSE IF found = {} THEN "notFound" ELSE "",
                 live |-> FindOne(store, id) # {},
                 expected |-> Expected(FindOne(store, id)),
                 stale |-> Stale(FindOne(store, id), now),
                 resp |-> GetShareResponse(storeDown, found)]
     /\ UNCHANGED <<store, now, ext, alive>>

\* A pass of the store's TTL task, some time after documents have expired.
TTLMonitor ==
  /\ \E r \in store : Expired(r, now)
  /\ store' = {r \in store : ~Expired(r, now)}
  /\ UNCHANGED <<now, last, ext, alive>>

Tick ==
  /\ now < MaxTicks * TickSeconds
  /\ now' = now + TickSeconds
  /\ UNCHANGED <<store, last, ext, alive>>

(* --------------------------- extraction -------------------------------- *)

PdfOutcomes ==
  {[ok |-> TRUE, text |-> t, message |-> ""] : t \in Texts}
  \cup {[ok |-> FALSE, text |-> "", message |-> "Invalid PDF structure"]}

GenOutcomes ==
  {[ok |-> TRUE, raw |-> r, message |-> ""] : r \in RawOutputs}
  \cup {[ok |-> FALSE, raw |-> <<>>, message |-> "429 quota exceeded"]}

Idle ==
  [pc |-> "idle", file |-> NoFile, text |-> "", raw |-> <<>>,
   pdfCalls |-> 0, genCalls |-> 0, cause |-> "", resp |-> NoResponse]

ParseFailed(details) ==
  Respond(500, ErrorDetails("Failed to parse resume.", details))

\* Faulty variant of ReceiveUpload: no `if (!req.file)` test before pdfParse.
ReceiveUploadUnchecked(f) ==
  [Idle EXCEPT !.pc = "pdfParse", !.file = f, !.pdfCalls = 1]

\* The handler up to its first await: the 400 when multer attached no file,
\* else the call of pdfParse on the buffer.
ReceiveUpload(f) ==
  IF f = NoFile
  THEN [Idle EXCEPT !.pc = "done", !.cause = "NoDocumentProvided",
                    !.resp = Respond(400, ErrorBody("No resume file uploaded."))]
  ELSE [Idle EXCEPT !.pc = "pdfParse", !.file = f, !.pdfCalls = 1]

\* pdfParse settled: the call of generateContent on the text, or the catch.
AfterPdfParse(e, out) ==
  IF out.ok
  THEN [e EXCEPT !.pc = "generate", !.text = out.text, !.genCalls = @ + 1]
  ELSE [e EXCEPT !.pc = "done", !.cause = "TextAcquisitionFailure",
                 !.resp = ParseFailed(out.message)]

\* Faulty variant of FinishExtraction: JSON.parse outside the try.
FinishExtractionUncaught(raw) ==
  LET p == JSONParse(raw) IN
  IF p.ok
  THEN [resp |-> Respond(200, p.v), cause |-> "", crashed |-> FALSE]
  ELSE [resp |-> NoResponse, cause |-> "ExtractionFailure", crashed |-> TRUE]

\* Faulty variant of FinishExtraction: the parsed value is normalized to the schema.
FinishExtractionNormalized(raw) ==
  LET p == JSONParse(raw) IN
  IF p.ok
  THEN [resp |-> Respond(200, Normalize(p.v, schema)), cause |-> "",
        crashed |-> FALSE]
  ELSE [resp |-> ParseFailed("Unexpected token"), cause |-> "ExtractionFailure",
        crashed |-> FALSE]

\* JSON.parse(response.text) and res.json(parsedJson) inside the try: the
\* parsed value as it is, or the catch with the SyntaxError's message.
FinishExtraction(raw) ==
  LET p == JSONParse(raw) IN
  IF p.ok
  THEN [resp |-> Respond(200, p.v), cause |-> "", crashed |-> FALSE]
  ELSE [resp |-> ParseFailed("Unexpected token"), cause |-> "ExtractionFailure",
        crashed |-> FALSE]

\* Faulty variant of AfterGenerate: a rejected provider call is made again.
AfterGenerateRetry(e, out) ==
  IF out.ok
  THEN LET fin == FinishExtraction(out.raw) IN
       [e EXCEPT !.pc = "done", !.raw = out.raw, !.cause = fin.cause,
                 !.resp = fin.resp]
  ELSE IF e.genCalls < 2
  THEN [e EXCEPT !.genCalls = @ + 1]
  ELSE [e EXCEPT !.pc = "done", !.cause = "ProviderFailure",
                 !.resp = ParseFailed(out.message)]

\* generateContent settled: the catch when it rejected, else the parse.
AfterGenerate(e, out) ==
  IF out.ok
  THEN LET fin == FinishExtraction(out.raw) IN
       [e EXCEPT !.pc = "done", !.raw = out.raw, !.cause = fin.cause,
                 !.resp = fin.resp]
  ELSE [e EXCEPT !.pc = "done", !.cause = "ProviderFailure",
                 !.resp = ParseFailed(out.message)]

\* An exception that leaves the handler's promise rejected ends the process.
Crashes(out) == out.ok /\ FinishExtraction(out.raw).crashed

Requests == 1..MaxRequests

\* POST /api/parse-resume arrives as request q, with file f or none.
ParseResumeReceive(q, f) ==
  /\ alive
  /\ ext[q].pc \in {"idle", "done"}
  /\ ext' = [ext EXCEPT ![q] = ReceiveUpload(f)]
  /\ UNCHANGED <<store, now, last, alive>>

ParseResumePdf(q, out) ==
  /\ alive
  /\ ext[q].pc = "pdfParse"
  /\ ext' = [ext EXCEPT ![q] = AfterPdfParse(ext[q], out)]
  /\ UNCHANGED <<store, now, last, alive>>

ParseResumeGenerate(q, out) ==
  /\ alive
  /\ ext[q].pc = "generate"
  /\ ext' = [ext EXCEPT ![q] = AfterGenerate(ext[q], out)]
  /\ alive' = ~Crashes(out)
  /\ UNCHANGED <<store, now, last>>

(* --------------------------- specification ----------------------------- *)

Init ==
  /\ store = {}
  /\ now = 0
  /\ last = NoRequest
  /\ ext = [q \in Requests |-> Idle]
  /\ alive = TRUE

\* The share endpoints over the store and its clock.
NextShare ==
  \/ \E d \in Bodies, id \in ShareIds, down \in BOOLEAN : CreateShare(d, id, down)
  \/ \E id \in ShareIds, down \in BOOLEAN : GetShare(id, down)
  \/ TTLMonitor
  \/ Tick

SpecShare == Init /\ [][NextShare]_vars

\* The extraction endpoint, MaxRequests requests in flight.
NextExtract ==
  \/ \E q \in Requests, f \in Files \cup {NoFile} : ParseResumeReceive(q, f)
  \/ \E q \in Requests, out \in PdfOutcomes : ParseResumePdf(q, out)
  \/ \E q \in Requests, out \in GenOutcomes : ParseResumeGenerate(q, out)

SpecExtract == Init /\ [][NextExtract]_vars

\* All three endpoints together: one extraction request in flight, one share
\* body.
Next ==
  \/ \E id \in ShareIds, down \in BOOLEAN : CreateShare(SampleBody, id, down)
  \/ \E id \in ShareIds, down \in BOOLEAN : GetShare(id, down)
  \/ TTLMonitor
  \/ Tick
  \/ \E f \in Files \cup {NoFile} : ParseResumeReceive(1, f)
  \/ \E out \in PdfOutcomes : ParseResumePdf(1, out)
  \/ \E out \in GenOutcomes : ParseResumeGenerate(1, out)

Spec == Init /\ [][Next]_vars

(* ------------------------------- claims -------------------------------- *)

ShareIdBody(id) == JObj(<<Member("shareId", JStr(id))>>)
NotFoundResponse == Respond(404, ErrorBody("Share link not found"))
FetchFailedResponse == Respond(500, ErrorBody("Failed to fetch shared data."))
CreateFailedResponse == Respond(500, ErrorBody("Failed to create share link."))

\* C1: a GET of a shareId that a POST returned, made while the record has
\* not reached its expiry and the store answers, responds 200 with a value
\* equal to the body that was posted.
C1_RoundTrip ==
  (last.op = "get" /\ last.live /\ ~last.stale /\ last.cause # "storeDown")
    => last.resp = Respond(200, last.expected)

\* C2 as stated: every GET ends in a response, and a GET of an id that no
\* stored record carries ends in the not-found response.
C2_AbsentIsNotFound ==
  last.op = "get" =>
    /\ last.resp.status # 0
    /\ (~last.live => last.resp = NotFoundResponse)

\* C2 amended: every GET ends in a response and the process stays up; a GET
\* of an id that no stored record carries ends in the not-found response
\* when the store answers the lookup, and in the 500 error object when the
\* store rejects it.
C2_AbsentIsNotFoundWhenStoreAnswers ==
  last.op = "get" =>
    /\ alive
    /\ last.resp.status \in {200, 404, 500}
    /\ (~last.live /\ last.cause # "storeDown" => last.resp = NotFoundResponse)
    /\ (last.cause = "storeDown" => last.resp = FetchFailedResponse)

C2_Witness ==
  /\ last.op = "get"
  /\ ~last.live
  /\ last.cause = "notFound"
  /\ last.resp = NotFoundResponse
  /\ now >= ExpireAfterSeconds

\* C3: at most one stored record per shareId; a create whose generated id is
\* already carried by a stored record answers the 500 error object without a
\* shareId and leaves the store as it was.
C3_NoSilentOverwrite ==
  /\ [](\A r1, r2 \in store : r1.shareId = r2.shareId => r1 = r2)
  /\ [](last.op = "create" /\ last.live =>
          /\ last.resp = CreateFailedResponse
          /\ ~HasKey(last.resp.body, "shareId"))
  /\ [][last' # last /\ last'.op = "create" /\ last'.live => store' = store]_vars

C3_Witness ==
  /\ last.op = "create"
  /\ last.live
  /\ last.cause = "collision"
  /\ last.resp = CreateFailedResponse
  /\ last.expected # last.posted
  /\ \E r \in store : r.shareId = last.id /\ r.posted = last.expected

\* C4: an extraction request without a file ends in the 400 error object
\* with neither pdfParse nor generateContent called, and its step leaves the
\* store as it was.
C4_NoFileRejectedBeforeIO ==
  /\ [](\A q \in Requests :
          ext[q].pc # "idle" /\ ext[q].file = NoFile =>
            /\ ext[q].pc = "done"
            /\ ext[q].resp = Respond(400, ErrorBody("No resume file uploaded."))
            /\ ext[q].pdfCalls = 0
            /\ ext[q].genCalls = 0)
  /\ [][\A q \in Requests :
          ext'[q] # ext[q] /\ ext'[q].file = NoFile => store' = store]_vars

C4_Witness ==
  \E q \in Requests :
    /\ ext[q].pc = "done"
    /\ ext[q].file = NoFile
    /\ ext[q].resp.status = 400
    /\ ext[q].pdfCalls = 0

\* C5 as stated: a finished extraction request that carried a document has
\* called the provider exactly once.
C5_ExactlyOneProviderCall ==
  \A q \in Requests :
    ext[q].pc = "done" /\ ext[q].file # NoFile => ext[q].genCalls = 1

\* C5 amended: an extraction request calls the provider at most once, and
\* never again after a failure: once when text acquisition succeeded, not at
\* all when text acquisition failed.
C5_AtMostOneProviderCall ==
  \A q \in Requests :
    /\ ext[q].pdfCalls <= 1
    /\ ext[q].genCalls <= 1
    /\ (ext[q].pc = "generate" => ext[q].genCalls = 1)
    /\ (ext[q].pc = "done" /\ ext[q].file # NoFile =>
          (ext[q].genCalls = 1 <=> ext[q].cause # "TextAcquisitionFailure"))

C5_Witness ==
  /\ \E q \in Requests :
       /\ ext[q].pc = "done"
       /\ ext[q].cause = "ProviderFailure"
       /\ ext[q].genCalls = 1
  /\ \E q \in Requests :
       /\ ext[q].pc = "done"
       /\ ext[q].cause = "TextAcquisitionFailure"
       /\ ext[q].genCalls = 0

\* The provider returned a text to request q, and JSON.parse rejects it.
Unparseable(q) ==
  /\ ext[q].pc = "done"
  /\ ext[q].genCalls = 1
  /\ ext[q].cause # "ProviderFailure"
  /\ ~JSONParse(ext[q].raw).ok

\* C6: when the provider's text is not JSON the request ends in the 500
\* error object carrying the parse error, no record is returned, and the
\* process stays up and accepts the next request.
C6_NonJsonIsHandled ==
  \A q \in Requests :
    Unparseable(q) =>
      /\ ext[q].resp.status = 500
      /\ IsErrorObject(ext[q].resp.body)
      /\ Get(ext[q].resp.body, "details") = JStr("Unexpected token")
      /\ ~HasKey(ext[q].resp.body, "basics")
      /\ alive
      /\ ENABLED ParseResumeReceive(q, "resume.pdf")

C6_Witness ==
  \E q \in Requests :
    /\ Unparseable(q)
    /\ ext[q].raw[1].c = "junk"
    /\ ext[q].resp.status = 500
    /\ alive

\* C7 as stated: every record a successful extraction returns is total over
\* the schema.
C7_ReturnedRecordIsTotal ==
  \A q \in Requests :
    ext[q].pc = "done" /\ ext[q].resp.status = 200 =>
      Total(ext[q].resp.body, schema)

\* C7 amended: a successful extraction returns the provider's JSON value as
\* parsed, unchanged: a field the provider omitted stays absent, so the
\* record is total over the schema only when the provider's output was.
C7_ReturnedRecordIsProviderOutput ==
  \A q \in Requests :
    ext[q].pc = "done" /\ ext[q].resp.status = 200 =>
      /\ JSONParse(ext[q].raw).ok
      /\ ext[q].resp.body = JSONParse(ext[q].raw).v
      /\ \A v \in {EmptyRecord, SkillsRecord, PartialRecord, JObj(<<>>), JNull} :
           ext[q].raw = Stringify(v) => ext[q].resp.body = v

C7_Witness ==
  \E q \in Requests :
    /\ ext[q].pc = "done"
    /\ ext[q].resp = Respond(200, PartialRecord)
    /\ ~HasKey(ext[q].resp.body, "projects")
    /\ ~Total(ext[q].resp.body, schema)

\* The failure class of the last share request, "" when it did not fail in
\* one of the named classes.
ShareFailure ==
  IF last.op = "create" /\ last.cause # "" THEN "ShareCreationFailure"
  ELSE IF last.op = "get" /\ last.cause = "notFound" THEN "ShareNotFound"
  ELSE ""

ExtractFailure(q) == IF ext[q].pc = "done" THEN ext[q].cause ELSE ""

\* C8 as stated: failures of two different classes end in different status
\* codes.
C8_DistinctStatusPerClass ==
  /\ \A q \in Requests :
       ExtractFailure(q) # "" /\ ShareFailure # "" =>
         ext[q].resp.status # last.resp.status
  /\ \A q1, q2 \in Requests :
       /\ ExtractFailure(q1) # ""
       /\ ExtractFailure(q2) # ""
       /\ ExtractFailure(q1) # ExtractFailure(q2)
       => ext[q1].resp.status # ext[q2].resp.status

\* C8 amended: every failure ends in a failure status and an error object,
\* never in a success or in no response: 400 for NoDocumentProvided, 404 for
\* ShareNotFound, and 500 for each of TextAcquisitionFailure,
\* ProviderFailure, ExtractionFailure and ShareCreationFailure, which share
\* the one status.
C8_FailureStatusPerClass ==
  /\ \A q \in Requests :
       ExtractFailure(q) # "" =>
         /\ ext[q].resp.status =
              (IF ExtractFailure(q) = "NoDocumentProvided" THEN 400 ELSE 500)
         /\ IsErrorObject(ext[q].resp.body)
  /\ ShareFailure # "" =>
       /\ last.resp.status = (IF ShareFailure = "ShareNotFound" THEN 404 ELSE 500)
       /\ IsErrorObject(last.resp.body)

C8_Witness ==
  /\ ExtractFailure(1) = "ExtractionFailure"
  /\ ShareFailure = "ShareCreationFailure"
  /\ ext[1].resp.status = 500
  /\ last.resp.status = 500

\* C9 as stated: a GET of a record made 30 days or more after its createdAt
\* never returns the stored data.
C9_UnreachableAfterThirtyDays ==
  last.op = "get" /\ last.stale => last.resp.status # 200

\* C9 amended: a record leaves the store only 2,592,000 seconds or more
\* after its createdAt, by the store's TTL pass, which may come later than
\* that; the read applies no time filter, so whenever the store answers, a
\* GET returns the data exactly when a record carries the id (even past the
\* 30 days) and not-found exactly when none does.
C9_ExpiryIsTheStoresPass ==
  /\ [][\A r \in store : r \notin store' => now - r.createdAt >= 2592000]_vars
  /\ [](last.op = "get" /\ last.cause # "storeDown" =>
          /\ last.live <=> last.resp.status = 200
          /\ ~last.live <=> last.resp = NotFoundResponse)

C9_Witness ==
  /\ last.op = "get"
  /\ last.stale
  /\ last.resp.status = 200
  /\ \A r \in store : r.shareId # last.id

====
